---- MODULE Spec2Model ----
(***************************************************************************)
(* State-machine model of the video labeler's annotation session:          *)
(* VideoLabelerViewModel (src/src/mvvm/viewmodel.py), AnnotationSession    *)
(* (src/src/mvvm/models.py), the services (src/src/mvvm/services.py) and   *)
(* the COCO writer (src/src/labeler/dataset.py).                           *)
(*                                                                         *)
(* Every operator command is one action: the Command wrapper's can_execute *)
(* guard followed by the whole handler.  The predictor (SAM2), the video   *)
(* decoder and the file system are collaborators: whether a call of theirs *)
(* succeeds is an input of the action.                                     *)
(***************************************************************************)
EXTENDS Integers, Sequences, FiniteSets, TLC

\* ------------------------------------------------------------------ bounds
MaxPoints == 2        \* cap on the length of the point list

\* frame counts of the videos of the general specification, their frame
\* indices, and the jump targets tried: every index, one below, one above
FrameCounts == {1, 2}
FrameIndices == UNION {0..(n - 1) : n \in FrameCounts}
JumpInputs == {0 - 1} \cup FrameIndices \cup FrameCounts

\* None of Python; object ids start at 1, frame indices at 0
None == 0 - 1

\* ------------------------------------------------------- Python dict model
\* A dict is the sequence of its items in insertion order.
DictKeys(d) == {d[i].key : i \in DOMAIN d}

DictHas(d, k) == k \in DictKeys(d)

DictIdx(d, k) == CHOOSE i \in DOMAIN d : d[i].key = k

DictGet(d, k) == d[DictIdx(d, k)].val

\* d[k] = v : an existing key keeps its position, a new key goes last
DictSet(d, k, v) ==
    IF DictHas(d, k) THEN [d EXCEPT ![DictIdx(d, k)].val = v]
    ELSE Append(d, [key |-> k, val |-> v])

\* del d[k]
DictDel(d, k) ==
    LET i == DictIdx(d, k)
    IN  [j \in 1..(Len(d) - 1) |-> IF j < i THEN d[j] ELSE d[j + 1]]

\* ------------------------------------------------------------ object names
\* A name is a sequence of characters; "A" is the upper case of "a".
Lower(s) == [i \in DOMAIN s |-> IF s[i] = "A" THEN "a" ELSE s[i]]

RECURSIVE LStrip(_)
LStrip(s) == IF s # <<>> /\ Head(s) = " " THEN LStrip(Tail(s)) ELSE s

RECURSIVE RStrip(_)
RStrip(s) ==
    IF s # <<>> /\ s[Len(s)] = " " THEN RStrip(SubSeq(s, 1, Len(s) - 1)) ELSE s

Strip(s) == RStrip(LStrip(s))

\* names the operator types into addObject
NameInputs == { <<>>, <<" ">>, <<"a">>, <<" ", "A">>, <<"b">> }

\* the n-th click <<x, y, label>> of the operator; no handler looks into it
Click(n) == <<10 * n, 10 * n, n % 2>>

\* the frames that may fail to be read during one extraction
BadInputs == {{}} \cup {{f} : f \in FrameIndices}

\* ------------------------------------------------------------------- state
VARIABLES
    current_session,      \* TRUE iff viewmodel.current_session is not None
    total_frames,         \* current_session.video_info.total_frames
    current_frame_index,  \* viewmodel.current_frame_index
    is_processing,        \* viewmodel.is_processing
    start_frame,          \* session.start_frame
    points,               \* session.points
    masks,                \* session.masks : dict frame -> dict object -> Mask
    frame_paths,          \* session.frame_paths
    is_initialized,       \* session.is_initialized
    needs_propagation,    \* session.needs_propagation
    objects,              \* session.objects : id -> ObjectDefinition
    current_object_id,    \* session.current_object_id
    next_object_id,       \* session.next_object_id
    cap,                  \* video_service.cap : the capture frames are read from
    labeler,              \* annotation_service.labeler with its inference state
    lastOp,               \* history: the last command and how it ended
    predCalls,            \* history: the predictor calls of the last command
    exported,             \* history: the dataset the last command wrote (and
                          \* the one an export right before it wrote)
    dirty,                \* history: point list changed since last propagation
    addSnap,              \* history: points and masks before the last addPoint
    idLog                 \* history: every id add_object has handed out

session == <<start_frame, points, masks, frame_paths, is_initialized,
             needs_propagation>>

objvars == <<objects, current_object_id, next_object_id>>

vars == <<current_session, total_frames, current_frame_index, is_processing,
          start_frame, points, masks, frame_paths, is_initialized,
          needs_propagation, objects, current_object_id, next_object_id,
          cap, labeler, lastOp, predCalls, exported, dirty, addSnap, idLog>>

NoLabeler == [ready |-> FALSE, num_frames |-> 0, obj_ids |-> <<>>,
              prompts |-> {}]

\* opened: self.cap is an opened capture; orphans: a capture that self.cap no
\* longer refers to is still open
NoCap == [opened |-> FALSE, orphans |-> FALSE]

NoExport == [written |-> FALSE]

NoSnap == [set |-> FALSE]

\* arg is the name addObject was given or the id selectObject was given
OpArg(name, result, arg) == [op |-> name, result |-> result, arg |-> arg]

Op(name, result) == OpArg(name, result, <<>>)

Init ==
    /\ current_session = FALSE
    /\ total_frames = 0
    /\ current_frame_index = 0
    /\ is_processing = FALSE
    /\ start_frame = 0
    /\ points = <<>>
    /\ masks = <<>>
    /\ frame_paths = <<>>
    /\ is_initialized = FALSE
    /\ needs_propagation = FALSE
    /\ objects = <<>>
    /\ current_object_id = None
    /\ next_object_id = 1
    /\ cap = NoCap
    /\ labeler = NoLabeler
    /\ lastOp = Op("init", "ok")
    /\ predCalls = <<>>
    /\ exported = NoExport
    /\ dirty = FALSE
    /\ addSnap = NoSnap
    /\ idLog = <<>>

\* what every command that is rejected or fails without a change leaves
UnchangedArg(name, result, arg) ==
    /\ lastOp' = OpArg(name, result, arg)
    /\ predCalls' = <<>>
    /\ exported' = NoExport
    /\ addSnap' = NoSnap
    /\ UNCHANGED <<current_session, total_frames, current_frame_index,
                   is_processing, session, objvars, cap, labeler, dirty,
                   idLog>>

Unchanged(name, result) == UnchangedArg(name, result, <<>>)

\* ---------------------------------------------------- command predicates
has_video == current_session

has_annotations == current_session /\ (Len(points) > 0 \/ Len(masks) > 0)

_has_video == has_video /\ ~is_processing

_can_add_point ==
    has_video /\ ~is_processing /\ current_session
    /\ current_object_id # None

_can_undo_point ==
    has_video /\ ~is_processing /\ current_session /\ Len(points) > 0

_has_objects ==
    has_video /\ ~is_processing /\ current_session
    /\ Cardinality(DOMAIN objects) > 0

\* variant: propagate is offered as soon as a video is loaded
_can_propagate_Uninitialized ==
    has_video /\ ~is_processing /\ current_session

_can_propagate ==
    has_video /\ ~is_processing /\ current_session /\ is_initialized

_has_annotations == has_annotations /\ ~is_processing

\* ---------------------------------------------------------------- loadVideo
\* VideoService.load_video: what becomes of self.cap
\* nothing releases the capture that the assignment to self.cap drops:
\* released tells whether the garbage collector has closed it since
load_video(outcome, released) ==
    LET orphans == cap.orphans \/ (cap.opened /\ ~released)
    IN  CASE outcome = "missing" -> cap
          [] outcome = "unopenable" -> [opened |-> FALSE, orphans |-> orphans]
          [] OTHER -> [opened |-> TRUE, orphans |-> orphans]

\* variant: the id counter is not carried over with the objects
RestoredObjects_CounterReset ==
    IF current_session /\ DOMAIN objects # {}
    THEN [objects |-> objects, current_object_id |-> current_object_id,
          next_object_id |-> 1]
    ELSE [objects |-> <<>>, current_object_id |-> None, next_object_id |-> 1]

\* variant: the selection is carried over, the objects are not
RestoredObjects_SelectionOnly ==
    IF current_session /\ DOMAIN objects # {}
    THEN [objects |-> <<>>, current_object_id |-> current_object_id,
          next_object_id |-> next_object_id]
    ELSE [objects |-> <<>>, current_object_id |-> None, next_object_id |-> 1]

\* variant: the new session starts without the objects of the previous one
RestoredObjects_Dropped ==
    [objects |-> <<>>, current_object_id |-> None, next_object_id |-> 1]

\* the objects, current_object_id and next_object_id _load_video installs
RestoredObjects ==
    IF current_session /\ DOMAIN objects # {}
    THEN [objects |-> objects, current_object_id |-> current_object_id,
          next_object_id |-> next_object_id]
    ELSE [objects |-> <<>>, current_object_id |-> None, next_object_id |-> 1]

LoadVideo(total, outcome, released) ==
    /\ cap' = load_video(outcome, released)
    /\ predCalls' = <<>>
    /\ exported' = NoExport
    /\ addSnap' = NoSnap
    /\ IF outcome = "ok"
       THEN /\ current_session' = TRUE
            /\ total_frames' = total
            /\ start_frame' = 0
            /\ points' = <<>>
            /\ masks' = <<>>
            /\ frame_paths' = <<>>
            /\ is_initialized' = FALSE
            /\ needs_propagation' = FALSE
            /\ objects' = RestoredObjects.objects
            /\ current_object_id' = RestoredObjects.current_object_id
            /\ next_object_id' = RestoredObjects.next_object_id
            /\ current_frame_index' = 0
            /\ dirty' = FALSE
            /\ lastOp' = Op("loadVideo", "ok")
            /\ UNCHANGED <<is_processing, labeler, idLog>>
       ELSE /\ lastOp' = Op("loadVideo", "failed")
            /\ UNCHANGED <<current_session, total_frames, current_frame_index,
                           is_processing, session, objvars, labeler, dirty,
                           idLog>>

\* ---------------------------------------------------- addObject, selectObject
\* variant: the duplicate check compares the names as typed
NameExists_CaseSensitive(object_name) ==
    \E k \in DOMAIN objects : objects[k].name = Strip(object_name)

\* the duplicate check of _add_object
NameExists(object_name) ==
    \E k \in DOMAIN objects :
        Lower(objects[k].name) = Strip(Lower(object_name))

\* AnnotationSession.add_object
add_object(name) ==
    /\ objects' = [k \in DOMAIN objects \cup {next_object_id} |->
                     IF k = next_object_id
                     THEN [id |-> next_object_id, name |-> name]
                     ELSE objects[k]]
    /\ current_object_id' =
           IF current_object_id = None THEN next_object_id
           ELSE current_object_id
    /\ next_object_id' = next_object_id + 1
    /\ idLog' = Append(idLog, next_object_id)

AddObject(object_name) ==
    IF ~_has_video THEN UNCHANGED vars
    ELSE IF object_name = <<>> \/ Strip(object_name) = <<>>
              \/ NameExists(object_name)
    THEN UnchangedArg("addObject", "rejected", object_name)
    ELSE /\ add_object(Strip(object_name))
         /\ lastOp' = OpArg("addObject", "ok", object_name)
         /\ predCalls' = <<>>
         /\ exported' = NoExport
         /\ addSnap' = NoSnap
         /\ UNCHANGED <<current_session, total_frames, current_frame_index,
                        is_processing, session, cap, labeler, dirty>>

\* AnnotationSession.set_current_object
set_current_object(object_id) ==
    IF object_id \in DOMAIN objects THEN object_id ELSE current_object_id

\* variant: the handler selects the id without looking it up
SelectObject_Unchecked(object_id) ==
    IF ~_has_objects THEN UNCHANGED vars
    ELSE /\ current_object_id' = object_id
         /\ lastOp' = OpArg("selectObject", "ok", <<object_id>>)
         /\ predCalls' = <<>>
         /\ exported' = NoExport
         /\ addSnap' = NoSnap
         /\ UNCHANGED <<current_session, total_frames, current_frame_index,
                        is_processing, session, objects, next_object_id, cap,
                        labeler, dirty, idLog>>

SelectObject(object_id) ==
    IF ~_has_objects THEN UNCHANGED vars
    ELSE IF object_id \notin DOMAIN objects
    THEN UnchangedArg("selectObject", "rejected", <<object_id>>)
    ELSE /\ current_object_id' = set_current_object(object_id)
         /\ lastOp' = OpArg("selectObject", "ok", <<object_id>>)
         /\ predCalls' = <<>>
         /\ exported' = NoExport
         /\ addSnap' = NoSnap
         /\ UNCHANGED <<current_session, total_frames, current_frame_index,
                        is_processing, session, objects, next_object_id, cap,
                        labeler, dirty, idLog>>

\* ------------------------------------------------------- session operations
\* AnnotationSession.add_mask
add_mask(ms, mask) ==
    LET inner == IF DictHas(ms, mask.frame_index)
                 THEN DictGet(ms, mask.frame_index) ELSE <<>>
    IN  DictSet(ms, mask.frame_index, DictSet(inner, mask.object_id, mask))

\* AnnotationSession.get_masks_for_frame
get_masks_for_frame(ms, frame_index) ==
    IF DictHas(ms, frame_index) THEN DictGet(ms, frame_index) ELSE <<>>

\* variant: the points are selected by frame only
get_points_for_object_on_frame_AnyObject(pts, frame_index, object_id) ==
    LET Keep(p) == p.frame_index = frame_index
    IN  SelectSeq(pts, Keep)

\* AnnotationSession.get_points_for_object_on_frame
get_points_for_object_on_frame(pts, frame_index, object_id) ==
    LET Keep(p) == p.frame_index = frame_index /\ p.object_id = object_id
    IN  SelectSeq(pts, Keep)

\* AnnotationSession.get_all_points_for_current_object_on_frame
get_all_points_for_current_object_on_frame(pts, frame_index) ==
    IF current_object_id = None THEN <<>>
    ELSE get_points_for_object_on_frame(pts, frame_index, current_object_id)

\* AnnotationSession.remove_last_point: the list that is left
remove_last_point(pts) ==
    IF pts # <<>> THEN SubSeq(pts, 1, Len(pts) - 1) ELSE pts

\* variant: the points go to the predictor with their absolute frame indices
relative_points_Absolute(pts, start) == pts

\* the copies with frame indices relative to the annotation start
relative_points(pts, start) ==
    [i \in DOMAIN pts |->
        [pts[i] EXCEPT !.frame_index = pts[i].frame_index - start]]

\* --------------------------------------------------------- frame extraction
\* VideoService.extract_frames_to_directory: the frames in bad fail to read
RECURSIVE extract_frames_to_directory(_, _, _, _)
extract_frames_to_directory(frame_idx, total, bad, paths) ==
    IF frame_idx >= total THEN paths
    ELSE extract_frames_to_directory(frame_idx + 1, total, bad,
             IF frame_idx \in bad THEN paths
             ELSE Append(paths, Len(paths)))   \* the file "%05d.jpg"

\* ---------------------------------------------------------------- predictor
\* Labeler.select_objects through AnnotationService.add_point_annotation:
\* the mask of one object on one frame, a function of the full point set
add_point_annotation(point, all_points_for_object) ==
    [mask_data |-> [kind |-> "click", frame |-> point.frame_index,
                    obj |-> point.object_id,
                    pts |-> [i \in DOMAIN all_points_for_object |->
                               <<all_points_for_object[i].x,
                                 all_points_for_object[i].y,
                                 all_points_for_object[i].label>>]],
     object_id |-> point.object_id,
     frame_index |-> point.frame_index]

\* variant: the mask is stored as the predictor returned it
absolute_mask_AsReturned(mask) == mask

\* "Update mask to use absolute frame index for storage"
absolute_mask(mask) ==
    [mask EXCEPT !.frame_index = current_frame_index,
                 !.object_id = current_object_id]

\* the inference state after the prompt of (frame, object) was replaced
WithPrompt(lab, point, all_points_for_object) ==
    LET k == <<point.frame_index, point.object_id>>
    IN  [lab EXCEPT
           !.obj_ids = IF \E i \in DOMAIN lab.obj_ids :
                              lab.obj_ids[i] = point.object_id
                       THEN lab.obj_ids
                       ELSE Append(lab.obj_ids, point.object_id),
           !.prompts = lab.prompts \cup {k}]

\* the relative frames a propagation covers: from the earliest prompted frame
\* to the last extracted one
PropagatedFrames(lab) ==
    LET prompted == {k[1] : k \in lab.prompts}
        first == CHOOSE r \in prompted : \A q \in prompted : r <= q
        lo == IF first < 0 THEN 0 ELSE first
    IN  IF prompted = {} THEN <<>>
        ELSE [i \in 1..(lab.num_frames - lo) |-> lo + i - 1]

\* AnnotationService.propagate_annotations: frame -> object -> Mask,
\* flattened in the order the items are produced
propagate_annotations(lab) ==
    LET F == PropagatedFrames(lab)
        O == lab.obj_ids
    IN  [i \in 1..(Len(F) * Len(O)) |->
           LET r == F[((i - 1) \div Len(O)) + 1]
               o == O[((i - 1) % Len(O)) + 1]
           IN  [mask_data |-> [kind |-> "prop", frame |-> r, obj |-> o],
                object_id |-> o,
                frame_index |-> r]]

\* variant: the masks are stored under the predictor's relative frame index
RECURSIVE StorePropagated_Relative(_, _)
StorePropagated_Relative(ms, all_masks) ==
    IF all_masks = <<>> THEN ms
    ELSE StorePropagated_Relative(add_mask(ms, Head(all_masks)),
                                  Tail(all_masks))

\* the loop of _propagate_if_needed that stores the result
RECURSIVE StorePropagated(_, _)
StorePropagated(ms, all_masks) ==
    IF all_masks = <<>> THEN ms
    ELSE LET mask == Head(all_masks)
             absolute_frame_idx == start_frame + mask.frame_index
         IN  StorePropagated(
                 add_mask(ms, [mask EXCEPT !.frame_index = absolute_frame_idx]),
                 Tail(all_masks))

\* a propagate call succeeds only on an inference state that holds a prompt
PropagateSucceeds(propOk) == propOk /\ labeler.ready /\ labeler.obj_ids # <<>>

\* variant: the flag is not cleared after the masks are stored
_propagate_if_needed_KeepsFlag(flag, propOk) ==
    IF ~current_session \/ ~flag
    THEN [raised |-> FALSE, masks |-> masks, needs_propagation |-> flag,
          calls |-> <<>>]
    ELSE IF PropagateSucceeds(propOk)
    THEN [raised |-> FALSE,
          masks |-> StorePropagated(masks, propagate_annotations(labeler)),
          needs_propagation |-> flag,
          calls |-> << [fn |-> "propagate", ok |-> TRUE] >>]
    ELSE [raised |-> TRUE, masks |-> masks, needs_propagation |-> flag,
          calls |-> << [fn |-> "propagate", ok |-> FALSE] >>]

\* variant: a predictor failure is reported but not raised to the caller
_propagate_if_needed_Swallows(flag, propOk) ==
    IF ~current_session \/ ~flag
    THEN [raised |-> FALSE, masks |-> masks, needs_propagation |-> flag,
          calls |-> <<>>]
    ELSE IF PropagateSucceeds(propOk)
    THEN [raised |-> FALSE,
          masks |-> StorePropagated(masks, propagate_annotations(labeler)),
          needs_propagation |-> FALSE,
          calls |-> << [fn |-> "propagate", ok |-> TRUE] >>]
    ELSE [raised |-> FALSE, masks |-> masks, needs_propagation |-> flag,
          calls |-> << [fn |-> "propagate", ok |-> FALSE] >>]

\* variant: the flag is cleared before the predictor is called
_propagate_if_needed_ClearsFirst(flag, propOk) ==
    IF ~current_session \/ ~flag
    THEN [raised |-> FALSE, masks |-> masks, needs_propagation |-> flag,
          calls |-> <<>>]
    ELSE IF PropagateSucceeds(propOk)
    THEN [raised |-> FALSE,
          masks |-> StorePropagated(masks, propagate_annotations(labeler)),
          needs_propagation |-> FALSE,
          calls |-> << [fn |-> "propagate", ok |-> TRUE] >>]
    ELSE [raised |-> TRUE, masks |-> masks, needs_propagation |-> FALSE,
          calls |-> << [fn |-> "propagate", ok |-> FALSE] >>]

\* _propagate_if_needed, given the flag it finds: what it leaves and whether
\* it raised
_propagate_if_needed(flag, propOk) ==
    IF ~current_session \/ ~flag
    THEN [raised |-> FALSE, masks |-> masks, needs_propagation |-> flag,
          calls |-> <<>>]
    ELSE IF PropagateSucceeds(propOk)
    THEN [raised |-> FALSE,
          masks |-> StorePropagated(masks, propagate_annotations(labeler)),
          needs_propagation |-> FALSE,
          calls |-> << [fn |-> "propagate", ok |-> TRUE] >>]
    ELSE [raised |-> TRUE, masks |-> masks, needs_propagation |-> flag,
          calls |-> << [fn |-> "propagate", ok |-> FALSE] >>]

\* variant: the flag is reset on the path without an exception only
finally_is_processing_OnSuccess(raised) == raised

\* "finally: self.is_processing = False" of the three handlers that set it
finally_is_processing(raised) == FALSE

\* ---------------------------------------------------------------- navigation
\* variant: the jump target is taken as given
Clamp_AsGiven(frame_index) == frame_index

\* jump target clamped as _jump_to_frame does
Clamp(frame_index) ==
    LET hi == IF frame_index < total_frames - 1 THEN frame_index
              ELSE total_frames - 1
    IN  IF hi > 0 THEN hi ELSE 0

\* variant: the frame index is assigned before the propagation runs
Navigate_MovesFirst(name, target, propOk) ==
    LET r == _propagate_if_needed(needs_propagation, propOk)
    IN  /\ masks' = r.masks
        /\ needs_propagation' = r.needs_propagation
        /\ predCalls' = r.calls
        /\ current_frame_index' = target
        /\ dirty' = IF r.calls # <<>> /\ ~r.raised THEN FALSE ELSE dirty
        /\ lastOp' = Op(name, IF r.raised THEN "failed" ELSE "ok")
        /\ is_processing' = IF r.calls = <<>> THEN is_processing
                            ELSE finally_is_processing(r.raised)
        /\ exported' = NoExport
        /\ addSnap' = NoSnap
        /\ UNCHANGED <<current_session, total_frames, start_frame, points,
                       frame_paths, is_initialized, objvars, cap, labeler,
                       idLog>>

\* the part the three navigation handlers share, once their test passed
Navigate(name, target, propOk) ==
    LET r == _propagate_if_needed(needs_propagation, propOk)
    IN  /\ masks' = r.masks
        /\ needs_propagation' = r.needs_propagation
        /\ predCalls' = r.calls
        /\ current_frame_index' =
               IF r.raised THEN current_frame_index ELSE target
        /\ dirty' = IF r.calls # <<>> /\ ~r.raised THEN FALSE ELSE dirty
        /\ lastOp' = Op(name, IF r.raised THEN "failed" ELSE "ok")
        /\ is_processing' = IF r.calls = <<>> THEN is_processing
                            ELSE finally_is_processing(r.raised)
        /\ exported' = NoExport
        /\ addSnap' = NoSnap
        /\ UNCHANGED <<current_session, total_frames, start_frame, points,
                       frame_paths, is_initialized, objvars, cap, labeler,
                       idLog>>

NextFrame(propOk) ==
    IF ~_has_video THEN UNCHANGED vars
    ELSE IF current_frame_index < total_frames - 1
    THEN Navigate("next", current_frame_index + 1, propOk)
    ELSE Unchanged("next", "noop")

PreviousFrame(propOk) ==
    IF ~_has_video THEN UNCHANGED vars
    ELSE IF current_frame_index > 0
    THEN Navigate("previous", current_frame_index - 1, propOk)
    ELSE Unchanged("previous", "noop")

\* variant: the jump does not compare its target with the current frame
JumpToFrame_Untested(frame_index, propOk) ==
    IF ~_has_video THEN UNCHANGED vars
    ELSE Navigate("jump", Clamp(frame_index), propOk)

JumpToFrame(frame_index, propOk) ==
    IF ~_has_video THEN UNCHANGED vars
    ELSE IF Clamp(frame_index) # current_frame_index
    THEN Navigate("jump", Clamp(frame_index), propOk)
    ELSE Unchanged("jump", "noop")

\* ------------------------------------------------------------------ propagate
Propagate(propOk) ==
    IF ~_can_propagate THEN UNCHANGED vars
    ELSE LET r == _propagate_if_needed(TRUE, propOk)
         IN  /\ masks' = r.masks
             /\ needs_propagation' = r.needs_propagation
             /\ predCalls' = r.calls
             /\ dirty' = IF r.calls # <<>> /\ ~r.raised THEN FALSE ELSE dirty
             /\ lastOp' = Op("propagate", IF r.raised THEN "failed" ELSE "ok")
             /\ is_processing' = finally_is_processing(r.raised)
             /\ exported' = NoExport
             /\ addSnap' = NoSnap
             /\ UNCHANGED <<current_session, total_frames, current_frame_index,
                            start_frame, points, frame_paths, is_initialized,
                            objvars, cap, labeler, idLog>>

\* ------------------------------------------------------------------- addPoint
\* variant: start_frame and frame_paths are assigned before the predictor is
\* initialized
_initialize_annotation_session_AssignsFirst(bad, initOutcome) ==
    LET paths == extract_frames_to_directory(current_frame_index, total_frames,
                                             bad, <<>>)
        outcome == IF initOutcome = "ok" /\ paths = <<>> THEN "state"
                   ELSE initOutcome
        fresh == [ready |-> outcome = "ok", num_frames |-> Len(paths),
                  obj_ids |-> <<>>, prompts |-> {}]
    IN  [raised |-> outcome # "ok",
         labeler |-> IF outcome \in {"ok", "state"} THEN fresh ELSE labeler,
         start_frame |-> IF outcome # "extract" THEN current_frame_index
                         ELSE start_frame,
         frame_paths |-> IF outcome # "extract" THEN paths ELSE frame_paths,
         is_initialized |-> outcome = "ok",
         calls |-> IF outcome \in {"ok", "state"}
                   THEN << [fn |-> "initialize", ok |-> outcome = "ok"] >>
                   ELSE <<>>]

\* variant: the session is not marked initialized after the predictor was
\* initialized
_initialize_annotation_session_NeverMarks(bad, initOutcome) ==
    LET paths == extract_frames_to_directory(current_frame_index, total_frames,
                                             bad, <<>>)
        outcome == IF initOutcome = "ok" /\ paths = <<>> THEN "state"
                   ELSE initOutcome
        fresh == [ready |-> outcome = "ok", num_frames |-> Len(paths),
                  obj_ids |-> <<>>, prompts |-> {}]
    IN  [raised |-> outcome # "ok",
         labeler |-> IF outcome \in {"ok", "state"} THEN fresh ELSE labeler,
         start_frame |-> IF outcome = "ok" THEN current_frame_index
                         ELSE start_frame,
         frame_paths |-> IF outcome = "ok" THEN paths ELSE frame_paths,
         is_initialized |-> FALSE,
         calls |-> IF outcome \in {"ok", "state"}
                   THEN << [fn |-> "initialize", ok |-> outcome = "ok"] >>
                   ELSE <<>>]

\* _initialize_annotation_session: the session fields and the labeler it leaves
\*   "extract"  frame extraction raises
\*   "labeler"  constructing the Labeler raises
\*   "state"    init_inference_state raises (also when no frame was written)
_initialize_annotation_session(bad, initOutcome) ==
    LET paths == extract_frames_to_directory(current_frame_index, total_frames,
                                             bad, <<>>)
        outcome == IF initOutcome = "ok" /\ paths = <<>> THEN "state"
                   ELSE initOutcome
        fresh == [ready |-> outcome = "ok", num_frames |-> Len(paths),
                  obj_ids |-> <<>>, prompts |-> {}]
    IN  [raised |-> outcome # "ok",
         labeler |-> IF outcome \in {"ok", "state"} THEN fresh ELSE labeler,
         start_frame |-> IF outcome = "ok" THEN current_frame_index
                         ELSE start_frame,
         frame_paths |-> IF outcome = "ok" THEN paths ELSE frame_paths,
         is_initialized |-> outcome = "ok",
         calls |-> IF outcome \in {"ok", "state"}
                   THEN << [fn |-> "initialize", ok |-> outcome = "ok"] >>
                   ELSE <<>>]

\* variant: the first-annotation test is missing, every addPoint initializes
InitStep_Always(bad, initOutcome) ==
    _initialize_annotation_session(bad, initOutcome)

\* variant: the first addPoint marks the session initialized and extracts
\* nothing
InitStep_Skips(bad, initOutcome) ==
    [raised |-> FALSE, labeler |-> labeler, start_frame |-> start_frame,
     frame_paths |-> frame_paths, is_initialized |-> TRUE, calls |-> <<>>]

\* the session as _add_point finds it after the first-annotation test
InitStep(bad, initOutcome) ==
    IF ~is_initialized THEN _initialize_annotation_session(bad, initOutcome)
    ELSE [raised |-> FALSE, labeler |-> labeler, start_frame |-> start_frame,
          frame_paths |-> frame_paths, is_initialized |-> TRUE,
          calls |-> <<>>]

\* variant: neither the command nor the handler tests for a selected object
AddPoint_Unselected(click, bad, initOutcome, predOk) ==
    IF ~_has_video THEN UNCHANGED vars
    ELSE
    LET ini == InitStep(bad, initOutcome)
        point == [x |-> click[1], y |-> click[2], label |-> click[3],
                  frame_index |-> current_frame_index,
                  object_id |-> current_object_id]
        pts == Append(points, point)
        rel == relative_points(
                   get_points_for_object_on_frame(pts, current_frame_index,
                                                  current_object_id),
                   ini.start_frame)
        last == rel[Len(rel)]
        call == [fn |-> "addPoints", frame |-> last.frame_index,
                 obj |-> last.object_id, pts |-> rel, ok |-> predOk]
        mask == absolute_mask(add_point_annotation(last, rel))
    IN  /\ is_processing' = finally_is_processing(ini.raised \/ ~predOk)
        /\ exported' = NoExport
        /\ start_frame' = ini.start_frame
        /\ frame_paths' = ini.frame_paths
        /\ is_initialized' = ini.is_initialized
        /\ UNCHANGED <<current_session, total_frames, current_frame_index,
                       objvars, cap, idLog>>
        /\ IF ini.raised
           THEN /\ lastOp' = Op("addPoint", "initFailed")
                /\ predCalls' = ini.calls
                /\ labeler' = ini.labeler
                /\ addSnap' = NoSnap
                /\ UNCHANGED <<points, masks, needs_propagation, dirty>>
           ELSE /\ points' = pts
                /\ dirty' = TRUE
                /\ predCalls' = ini.calls \o <<call>>
                /\ IF predOk
                   THEN /\ labeler' = WithPrompt(ini.labeler, last, rel)
                        /\ masks' = add_mask(masks, mask)
                        /\ needs_propagation' = TRUE
                        /\ lastOp' = Op("addPoint", "ok")
                        /\ addSnap' = [set |-> TRUE, points |-> points,
                                       masks |-> masks]
                   ELSE /\ labeler' = ini.labeler
                        /\ lastOp' = Op("addPoint", "failed")
                        /\ addSnap' = NoSnap
                        /\ UNCHANGED <<masks, needs_propagation>>

AddPoint(click, bad, initOutcome, predOk) ==
    IF ~_can_add_point THEN UNCHANGED vars
    ELSE IF current_object_id = None THEN Unchanged("addPoint", "rejected")
    ELSE
    LET ini == InitStep(bad, initOutcome)
        point == [x |-> click[1], y |-> click[2], label |-> click[3],
                  frame_index |-> current_frame_index,
                  object_id |-> current_object_id]
        pts == Append(points, point)
        all_points_for_object ==
            get_all_points_for_current_object_on_frame(pts,
                                                       current_frame_index)
        rel == relative_points(all_points_for_object, ini.start_frame)
        last == rel[Len(rel)]
        call == [fn |-> "addPoints", frame |-> last.frame_index,
                 obj |-> last.object_id, pts |-> rel, ok |-> predOk]
        mask == absolute_mask(add_point_annotation(last, rel))
    IN  /\ is_processing' = finally_is_processing(ini.raised \/ ~predOk)
        /\ exported' = NoExport
        /\ start_frame' = ini.start_frame
        /\ frame_paths' = ini.frame_paths
        /\ is_initialized' = ini.is_initialized
        /\ UNCHANGED <<current_session, total_frames, current_frame_index,
                       objvars, cap, idLog>>
        /\ IF ini.raised
           THEN /\ lastOp' = Op("addPoint", "initFailed")
                /\ predCalls' = ini.calls
                /\ labeler' = ini.labeler
                /\ addSnap' = NoSnap
                /\ UNCHANGED <<points, masks, needs_propagation, dirty>>
           ELSE /\ points' = pts
                /\ dirty' = TRUE
                /\ predCalls' = ini.calls \o <<call>>
                /\ IF predOk
                   THEN /\ labeler' = WithPrompt(ini.labeler, last, rel)
                        /\ masks' = add_mask(masks, mask)
                        /\ needs_propagation' = TRUE
                        /\ lastOp' = Op("addPoint", "ok")
                        /\ addSnap' = [set |-> TRUE, points |-> points,
                                       masks |-> masks]
                   ELSE /\ labeler' = ini.labeler
                        /\ lastOp' = Op("addPoint", "failed")
                        /\ addSnap' = NoSnap
                        /\ UNCHANGED <<masks, needs_propagation>>

\* ------------------------------------------------------------------ undoPoint
\* variant: neither the command nor the handler tests for an empty point list
UndoPoint_Unchecked(predOk) ==
    /\ current_session
    /\ points' = remove_last_point(points)
    /\ needs_propagation' = TRUE
    /\ dirty' = TRUE
    /\ lastOp' = Op("undoPoint", "ok")
    /\ predCalls' = <<>>
    /\ exported' = NoExport
    /\ addSnap' = NoSnap
    /\ UNCHANGED <<current_session, total_frames, current_frame_index,
                   is_processing, start_frame, masks, frame_paths,
                   is_initialized, objvars, cap, labeler, idLog>>

UndoPoint(predOk) ==
    IF ~_can_undo_point \/ points = <<>>
    THEN Unchanged("undoPoint", "rejected")
    ELSE
    LET pts == remove_last_point(points)
        remaining_points ==
            get_all_points_for_current_object_on_frame(pts,
                                                       current_frame_index)
        rel == relative_points(remaining_points, start_frame)
        last == rel[Len(rel)]
        call == [fn |-> "addPoints", frame |-> last.frame_index,
                 obj |-> last.object_id, pts |-> rel, ok |-> predOk]
        mask == absolute_mask(add_point_annotation(last, rel))
        frame_masks == get_masks_for_frame(masks, current_frame_index)
    IN  /\ points' = pts
        /\ dirty' = TRUE
        /\ is_processing' =
               finally_is_processing(remaining_points # <<>> /\ ~predOk)
        /\ exported' = NoExport
        /\ addSnap' = IF lastOp = Op("addPoint", "ok") THEN addSnap ELSE NoSnap
        /\ UNCHANGED <<current_session, total_frames, current_frame_index,
                       start_frame, frame_paths, is_initialized, objvars, cap,
                       idLog>>
        /\ IF remaining_points # <<>>
           THEN /\ predCalls' = <<call>>
                /\ IF predOk
                   THEN /\ masks' = add_mask(masks, mask)
                        /\ labeler' = WithPrompt(labeler, last, rel)
                        /\ needs_propagation' = TRUE
                        /\ lastOp' = Op("undoPoint", "ok")
                   ELSE /\ lastOp' = Op("undoPoint", "failed")
                        /\ UNCHANGED <<masks, labeler, needs_propagation>>
           ELSE /\ predCalls' = <<>>
                /\ masks' = IF DictHas(frame_masks, current_object_id)
                            THEN DictSet(masks, current_frame_index,
                                     DictDel(frame_masks, current_object_id))
                            ELSE masks
                /\ needs_propagation' = TRUE
                /\ lastOp' = Op("undoPoint", "ok")
                /\ UNCHANGED labeler

\* --------------------------------------------------------------------- export
\* the masks of the session as (frame, object, Mask) items in iteration order
RECURSIVE FlatMasks(_)
FlatMasks(ms) ==
    IF ms = <<>> THEN <<>>
    ELSE LET f == Head(ms)
         IN  [i \in DOMAIN f.val |->
                [frame |-> f.key, obj |-> f.val[i].key, mask |-> f.val[i].val]]
             \o FlatMasks(Tail(ms))

\* variant: the dataset object of the previous export is used again
EmptyDataset_Reused ==
    IF exported.written THEN exported.data
    ELSE [images |-> <<>>, annotations |-> <<>>, categories |-> <<>>]

\* the COCODataset export_to_coco creates
EmptyDataset == [images |-> <<>>, annotations |-> <<>>, categories |-> <<>>]

\* variant: every mask gets the id of the first category
CategoryId_First(ds, object_name) == 1

\* COCODataset.add_category: the id of the category of that name
CategoryId(ds, object_name) ==
    IF \E i \in DOMAIN ds.categories : ds.categories[i].name = object_name
    THEN LET i == CHOOSE j \in DOMAIN ds.categories :
                      ds.categories[j].name = object_name
         IN  ds.categories[i].id
    ELSE Len(ds.categories) + 1      \* next_category_id

add_category(ds, object_name) ==
    IF \E i \in DOMAIN ds.categories : ds.categories[i].name = object_name
    THEN ds
    ELSE [ds EXCEPT !.categories =
              Append(@, [id |-> Len(ds.categories) + 1, name |-> object_name])]

\* variant: the image id is taken before the list is counted from one
add_image_ZeroBased(ds, image_path, annotation) ==
    LET image_id == Len(ds.images)
    IN  [ds EXCEPT
           !.images = Append(@, [id |-> image_id, file_name |-> image_path]),
           !.annotations = Append(@, [annotation EXCEPT !.image_id = image_id])]

\* COCODataset.add_image with the annotation of one mask
add_image(ds, image_path, annotation) ==
    LET image_id == Len(ds.images) + 1
    IN  [ds EXCEPT
           !.images = Append(@, [id |-> image_id, file_name |-> image_path]),
           !.annotations = Append(@, [annotation EXCEPT !.image_id = image_id])]

\* COCODataset.add_sam_mask; mask_data stands for the bbox and area it yields
add_sam_mask(ds, mask_data, image_path, object_name) ==
    LET withCat == add_category(ds, object_name)
        annotation == [id |-> Len(ds.annotations) + 1, image_id |-> None,
                       category_id |-> CategoryId(ds, object_name),
                       mask_data |-> mask_data]
    IN  add_image(withCat, image_path, annotation)

\* the loop of ExportService.export_to_coco
RECURSIVE export_to_coco(_, _)
export_to_coco(ds, items) ==
    IF items = <<>> THEN ds
    ELSE LET it == Head(items)
             relative_frame_idx == it.frame - start_frame
             object_name == IF it.obj \in DOMAIN objects
                            THEN objects[it.obj].name ELSE <<"unknown">>
         IN  export_to_coco(
                 IF 0 <= relative_frame_idx
                    /\ relative_frame_idx < Len(frame_paths)
                 THEN add_sam_mask(ds, it.mask.mask_data,
                                   frame_paths[relative_frame_idx + 1],
                                   object_name)
                 ELSE ds,
                 Tail(items))

ExportCoco(writeOk) ==
    IF ~_has_annotations THEN UNCHANGED vars
    ELSE /\ lastOp' = Op("export", IF writeOk THEN "ok" ELSE "failed")
         /\ exported' = IF writeOk
                        THEN [written |-> TRUE,
                              data |-> export_to_coco(EmptyDataset,
                                                      FlatMasks(masks)),
                              again |-> exported.written,
                              prev |-> IF exported.written THEN exported.data
                                       ELSE EmptyDataset]
                        ELSE NoExport
         /\ predCalls' = <<>>
         /\ addSnap' = NoSnap
         /\ UNCHANGED <<current_session, total_frames, current_frame_index,
                        is_processing, session, objvars, cap, labeler, dirty,
                        idLog>>

\* _export_coco_partial: ExportService has no export_to_coco_partial, the
\* call raises AttributeError and the handler re-raises it
ExportCocoPartial ==
    IF ~_has_annotations THEN UNCHANGED vars
    ELSE Unchanged("exportPartial", "failed")

\* -------------------------------------------------------------- specification
InitOutcomes == {"ok", "extract", "labeler", "state"}

LoadOutcomes == {"ok", "missing", "unopenable"}

\* one command of the operator, with its inputs drawn from the given sets
Step(names, counts, pointCap, collected) ==
    \/ \E total \in counts, outcome \in LoadOutcomes, released \in collected :
           LoadVideo(total, outcome, released)
    \/ \E object_name \in names : AddObject(object_name)
    \/ \E object_id \in 1..3 : SelectObject(object_id)
    \/ \E bad \in (IF is_initialized THEN {{}} ELSE BadInputs),
          initOutcome \in (IF is_initialized THEN {"ok"} ELSE InitOutcomes),
          predOk \in BOOLEAN :
           /\ Len(points) < pointCap
           /\ AddPoint(Click(Len(points) + 1), bad, initOutcome, predOk)
    \/ \E predOk \in BOOLEAN : UndoPoint(predOk)
    \/ \E propOk \in BOOLEAN : NextFrame(propOk)
    \/ \E propOk \in BOOLEAN : PreviousFrame(propOk)
    \/ \E frame_index \in JumpInputs, propOk \in BOOLEAN :
           JumpToFrame(frame_index, propOk)
    \/ \E propOk \in BOOLEAN : Propagate(propOk)
    \/ \E writeOk \in BOOLEAN : ExportCoco(writeOk)
    \/ ExportCocoPartial

\* the annotation session of one object class
Next == Step({<<>>, <<"a">>}, FrameCounts, MaxPoints, {TRUE})

Spec == Init /\ [][Next]_vars

\* object bookkeeping: every name the operator may type, one-frame videos
NextObjects == Step(NameInputs, {1}, 1, {TRUE})

SpecObjects == Init /\ [][NextObjects]_vars

\* two object classes annotated side by side on a one-frame video
PairPoints == 2

NextPair == Step({<<"a">>, <<"b">>}, {1}, PairPoints, {TRUE})

SpecPair == Init /\ [][NextPair]_vars

\* loading one video after another: the capture that is replaced may or may
\* not have been closed by the garbage collector
NextLoad == Step({<<"a">>}, FrameCounts, 1, BOOLEAN)

SpecLoad == Init /\ [][NextLoad]_vars

\* the scenario of one object "block" in a video of ScenarioFrames frames:
\* the state after loadVideo and addObject("block")
ScenarioFrames == 20

ScenarioStart == 5

Block == <<"b", "l", "o", "c", "k">>

ScenarioInit ==
    /\ current_session = TRUE
    /\ total_frames = ScenarioFrames
    /\ current_frame_index = 0
    /\ is_processing = FALSE
    /\ start_frame = 0
    /\ points = <<>>
    /\ masks = <<>>
    /\ frame_paths = <<>>
    /\ is_initialized = FALSE
    /\ needs_propagation = FALSE
    /\ objects = << [id |-> 1, name |-> Block] >>
    /\ current_object_id = 1
    /\ next_object_id = 2
    /\ cap = [opened |-> TRUE, orphans |-> FALSE]
    /\ labeler = NoLabeler
    /\ lastOp = OpArg("addObject", "ok", Block)
    /\ predCalls = <<>>
    /\ exported = NoExport
    /\ dirty = FALSE
    /\ addSnap = NoSnap
    /\ idLog = <<1>>

\* one point at most, every frame readable
ScenarioNext ==
    \/ \E initOutcome \in InitOutcomes, predOk \in BOOLEAN :
           /\ Len(points) < 1
           /\ AddPoint(Click(1), {}, initOutcome, predOk)
    \/ \E propOk \in BOOLEAN : NextFrame(propOk)
    \/ \E propOk \in BOOLEAN : PreviousFrame(propOk)
    \/ \E frame_index \in 0..(ScenarioFrames - 1), propOk \in BOOLEAN :
           JumpToFrame(frame_index, propOk)
    \/ \E propOk \in BOOLEAN : Propagate(propOk)
    \/ \E writeOk \in BOOLEAN : ExportCoco(writeOk)

SpecScenario == ScenarioInit /\ [][ScenarioNext]_vars

\* ===================================================================== claims
NavOps == {"next", "previous", "jump"}

\* the last command ran a propagation that succeeded
PropagationSucceeded ==
    /\ lastOp.op \in NavOps \cup {"propagate"}
    /\ predCalls = << [fn |-> "propagate", ok |-> TRUE] >>

\* C1: within one session, once the first addPoint has set start_frame
\* (is_initialized), no command other than a loadVideo that installs a new
\* session changes it; and the value set is the frame the operator was on.
C1_StartFrameFixed ==
    [][ /\ (is_initialized /\ lastOp' # Op("loadVideo", "ok")
               => start_frame' = start_frame)
        /\ (~is_initialized /\ is_initialized'
               => start_frame' = current_frame_index /\ lastOp'.op = "addPoint")
      ]_vars

\* start_frame is anchored, the operator has navigated away and added again
C1_Witness ==
    /\ is_initialized
    /\ Len(points) = 2
    /\ points[1].frame_index # points[2].frame_index
    /\ start_frame = 1
    /\ current_frame_index = 0

\* C2 as stated: needs_propagation is false after every successful
\* propagation, and only addPoint or undoPoint take it from false to true.
C2_Original ==
    [][ /\ (PropagationSucceeded' => ~needs_propagation')
        /\ (~needs_propagation /\ needs_propagation'
               => lastOp'.op \in {"addPoint", "undoPoint"})
      ]_vars

\* C2 amended: needs_propagation is false after every successful propagation,
\* and it goes from false to true only by an addPoint, an undoPoint, or a
\* manual propagate whose predictor call failed.
C2_FlagTransitions ==
    [][ /\ (PropagationSucceeded' => ~needs_propagation')
        /\ (~needs_propagation /\ needs_propagation'
               => \/ lastOp'.op \in {"addPoint", "undoPoint"}
                  \/ lastOp' = Op("propagate", "failed"))
      ]_vars

\* a propagation succeeded and cleared the flag, then a manual propagate
\* failed and left it set although no point changed
C2_Witness ==
    /\ lastOp = Op("propagate", "failed")
    /\ needs_propagation
    /\ ~dirty
    /\ masks # <<>>

\* C3 as stated: whenever the point list changed since the last successful
\* propagation of the session the flag is set, and the flag is cleared only
\* by a propagation that succeeded.
C3_Original ==
    [][ /\ (dirty' => needs_propagation')
        /\ (needs_propagation /\ ~needs_propagation'
               => PropagationSucceeded' \/ lastOp' = Op("loadVideo", "ok"))
      ]_vars

\* the masks of a session as a set of (frame, object, Mask) items
MaskSet(ms) == {FlatMasks(ms)[i] : i \in DOMAIN FlatMasks(ms)}

\* C4 as stated: a successful addPoint followed at once by a successful
\* undoPoint leaves the point list and the mask map as they were before the
\* addPoint.
C4_Original ==
    (lastOp = Op("undoPoint", "ok") /\ addSnap.set)
        => /\ points = addSnap.points
           /\ MaskSet(masks) = MaskSet(addSnap.masks)

\* C5: an undoPoint given to a session with an empty point list changes
\* nothing of the session and calls the predictor not at all.
C5_UndoEmptyRejected ==
    [][ (lastOp'.op = "undoPoint" /\ current_session /\ points = <<>>)
           => /\ UNCHANGED <<points, masks, needs_propagation, is_initialized,
                             start_frame, current_frame_index, labeler>>
              /\ predCalls' = <<>>
              /\ lastOp'.result = "rejected"
      ]_vars

\* undoPoint was given to an initialized session whose points are all undone
C5_Witness ==
    /\ lastOp = Op("undoPoint", "rejected")
    /\ current_session
    /\ is_initialized
    /\ points = <<>>

\* name equals the name of an object, ignoring case and surrounding blanks
IsDuplicate(object_name) ==
    \E k \in DOMAIN objects :
        Lower(Strip(objects[k].name)) = Lower(Strip(object_name))

\* C6: addObject with a name that equals an existing name case-insensitively
\* after trimming is rejected and leaves objects, current_object_id and
\* next_object_id as they were.
C6_DuplicateRejected ==
    [][ (lastOp'.op = "addObject" /\ IsDuplicate(lastOp'.arg))
           => /\ UNCHANGED <<objects, current_object_id, next_object_id>>
              /\ lastOp'.result = "rejected"
      ]_vars

\* the name " A" was rejected while an object "a" exists
C6_Witness ==
    /\ lastOp.op = "addObject"
    /\ lastOp.result = "rejected"
    /\ lastOp.arg = <<" ", "A">>
    /\ \E k \in DOMAIN objects : objects[k].name = <<"a">>

\* C7: names are pairwise different ignoring case, every key is its object's
\* id, ids lie in 1..next_object_id - 1, and add_object never hands out an id
\* twice.
C7_ObjectIdentity ==
    /\ \A j, k \in DOMAIN objects :
           j # k => Lower(objects[j].name) # Lower(objects[k].name)
    /\ \A k \in DOMAIN objects :
           objects[k].id = k /\ k >= 1 /\ k < next_object_id
    /\ \A i, j \in DOMAIN idLog : i # j => idLog[i] # idLog[j]
    /\ {idLog[i] : i \in DOMAIN idLog} = DOMAIN objects

\* a second object was added to the objects a loadVideo carried over
C7_Witness ==
    /\ Cardinality(DOMAIN objects) = 2
    /\ lastOp.op = "addObject"
    /\ lastOp.result = "ok"
    /\ cap.opened
    /\ is_initialized = FALSE
    /\ labeler.ready

\* C8: current_object_id is unset or a key of objects.
C8_CurrentObjectValid ==
    current_object_id = None \/ current_object_id \in DOMAIN objects

\* an id that is no key was selected while object 2 is the current one
C8_Witness ==
    /\ lastOp.op = "selectObject"
    /\ lastOp.result = "rejected"
    /\ lastOp.arg = <<3>>
    /\ current_object_id = 2

\* C9: a navigation that changes the frame while needs_propagation is set has
\* first run the propagation to success: the predictor's masks are stored and
\* the flag is cleared.
C9_PropagateBeforeMove ==
    [][ (lastOp'.op \in NavOps /\ current_frame_index' # current_frame_index
         /\ needs_propagation)
           => /\ ~needs_propagation'
              /\ PropagationSucceeded'
              /\ \A m \in {propagate_annotations(labeler)[i] :
                             i \in DOMAIN propagate_annotations(labeler)} :
                     /\ DictHas(masks', start_frame + m.frame_index)
                     /\ DictHas(DictGet(masks', start_frame + m.frame_index),
                                m.object_id)
      ]_vars

\* the operator moved on from the annotated frame and the masks were propagated
C9_Witness ==
    /\ lastOp = Op("next", "ok")
    /\ PropagationSucceeded
    /\ current_frame_index = 1
    /\ Len(points) = 1
    /\ points[1].frame_index = 0
    /\ Cardinality(MaskSet(masks)) = 2

\* the (frame, object) keys under which the session holds a mask
MaskKeys(ms) == {<<m.frame, m.obj>> : m \in MaskSet(ms)}

\* C10: in the scenario, the addPoint on frame ScenarioStart anchors
\* start_frame there and stores one mask, at (ScenarioStart, 1); a navigation
\* that propagates leaves a mask of object 1 on every frame from ScenarioStart
\* to the last; the export of that session has the one category (1, "block"),
\* one image per frame that has a mask and one annotation per image, of
\* category 1.
C10_Scenario ==
    LET after == {<<f, 1>> : f \in ScenarioStart..(total_frames - 1)}
    IN  /\ (lastOp = Op("addPoint", "ok")
            /\ current_frame_index = ScenarioStart)
               => /\ start_frame = ScenarioStart
                  /\ MaskKeys(masks) = {<<ScenarioStart, 1>>}
        /\ (lastOp.op \in NavOps /\ PropagationSucceeded
            /\ start_frame = ScenarioStart)
               => MaskKeys(masks) = after
        /\ (exported.written /\ start_frame = ScenarioStart
            /\ MaskKeys(masks) = after)
               => LET data == exported.data
                  IN  /\ data.categories = << [id |-> 1, name |-> Block] >>
                      /\ Len(data.images) = Cardinality(after)
                      /\ Len(data.annotations) = Len(data.images)
                      /\ {data.images[i].file_name :
                              i \in DOMAIN data.images}
                           = {k[1] - start_frame : k \in after}
                      /\ \A i \in DOMAIN data.annotations :
                             /\ data.annotations[i].image_id
                                    = data.images[i].id
                             /\ data.annotations[i].category_id = 1

\* the session annotated on frame ScenarioStart was propagated and exported
C10_Witness ==
    /\ exported.written
    /\ start_frame = ScenarioStart
    /\ Len(points) = 1
    /\ MaskKeys(masks) = {<<f, 1>> : f \in ScenarioStart..(total_frames - 1)}
    /\ Len(exported.data.images) = total_frames - ScenarioStart

\* the session holds a mask of object o on frame f / that mask
HasMask(ms, f, o) == DictHas(ms, f) /\ DictHas(DictGet(ms, f), o)

MaskAt(ms, f, o) == DictGet(DictGet(ms, f), o)

\* the masks a propagation returns, as a set
Returned(lab) ==
    {propagate_annotations(lab)[i] : i \in DOMAIN propagate_annotations(lab)}

\* C11: an addPoint on absolute frame f calls the predictor with the relative
\* index f - start_frame and, for f >= start_frame, stores the mask it returns
\* for that index under f; a propagation stores the mask returned for relative
\* index r under start_frame + r, so the mask returned for the relative frame
\* of a point annotated on f >= start_frame lies under exactly f.
C11_RoundTrip ==
    [][ /\ (lastOp'.op = "addPoint"
               => \A i \in DOMAIN predCalls' :
                      predCalls'[i].fn = "addPoints"
                         => /\ predCalls'[i].frame
                                  = current_frame_index - start_frame'
                            /\ (predCalls'[i].ok
                                /\ current_frame_index >= start_frame')
                                  => /\ HasMask(masks', current_frame_index,
                                                current_object_id)
                                     /\ MaskAt(masks', current_frame_index,
                                               current_object_id).mask_data.frame
                                          + start_frame' = current_frame_index)
        /\ (PropagationSucceeded'
               => /\ \A m \in Returned(labeler) :
                         /\ HasMask(masks', start_frame + m.frame_index,
                                    m.object_id)
                         /\ MaskAt(masks', start_frame + m.frame_index,
                                   m.object_id).mask_data = m.mask_data
                  /\ \A i \in DOMAIN points, m \in Returned(labeler) :
                         (points[i].frame_index >= start_frame
                          /\ m.frame_index = points[i].frame_index - start_frame
                          /\ m.object_id = points[i].object_id)
                            => MaskAt(masks', points[i].frame_index,
                                      points[i].object_id).mask_data
                                 = m.mask_data)
      ]_vars

\* the session was anchored on frame 1 and the mask the predictor returned for
\* relative frame 0 lies under frame 1
C11_Witness ==
    /\ PropagationSucceeded
    /\ start_frame = 1
    /\ points # <<>>
    /\ points[1].frame_index = 1
    /\ HasMask(masks, 1, 1)
    /\ MaskAt(masks, 1, 1).mask_data.kind = "prop"
    /\ MaskAt(masks, 1, 1).mask_data.frame = 0

\* C12 as stated: the predictor is never called with a negative relative
\* frame index, and an addPoint given while current_frame_index < start_frame
\* is rejected.
C12_Original ==
    /\ \A i \in DOMAIN predCalls :
           predCalls[i].fn = "addPoints" => predCalls[i].frame >= 0
    /\ (lastOp.op = "addPoint" /\ is_initialized
        /\ current_frame_index < start_frame)
           => lastOp.result = "rejected"

\* C13: every mask masks[f][o] carries frame_index f and object_id o, f is a
\* frame of the video and the absolute index of the relative frame the
\* predictor computed the mask for; every point carries the frame the operator
\* was on when it was added.
C13_AbsoluteKeys ==
    /\ [](\A it \in MaskSet(masks) :
              /\ it.mask.frame_index = it.frame
              /\ it.mask.object_id = it.obj
              /\ it.frame \in 0..(total_frames - 1)
              /\ it.frame = start_frame + it.mask.mask_data.frame)
    /\ [](\A i \in DOMAIN points :
              points[i].frame_index \in 0..(total_frames - 1))
    /\ [][ Len(points') = Len(points) + 1
              => /\ points'[Len(points')].frame_index = current_frame_index
                 /\ SubSeq(points', 1, Len(points)) = points
         ]_vars

\* a session anchored on frame 1 holds a propagated mask on frame 1 and a mask
\* of a point added on frame 0
C13_Witness ==
    /\ start_frame = 1
    /\ Len(points) = 2
    /\ HasMask(masks, 0, 1)
    /\ HasMask(masks, 1, 1)
    /\ MaskAt(masks, 0, 1).mask_data.kind = "click"
    /\ MaskAt(masks, 1, 1).mask_data.kind = "prop"

\* C14 as stated: once the first point has initialized the session,
\* frame_paths has total_frames - start_frame entries and its i-th entry is
\* the file of relative index i, whatever frames failed to be read.
C14_Original ==
    is_initialized
        => /\ Len(frame_paths) = total_frames - start_frame
           /\ \A i \in DOMAIN frame_paths : frame_paths[i] = i - 1

\* the mask items whose frame has an extracted file, in export order
InRange(it) ==
    /\ 0 <= it.frame - start_frame
    /\ it.frame - start_frame < Len(frame_paths)

ExportedItems == SelectSeq(FlatMasks(masks), InRange)

\* C15 as stated: the exported categories are the objects of the session,
\* each with the object's id and name, and every annotation's category_id is
\* the object_id of the mask it was made from.
C15_Original ==
    exported.written
        => LET data == exported.data
           IN  /\ {data.categories[i] : i \in DOMAIN data.categories}
                    = {[id |-> k, name |-> objects[k].name] :
                           k \in DOMAIN objects}
               /\ Len(data.categories) = Cardinality(DOMAIN objects)
               /\ Len(data.annotations) = Len(ExportedItems)
               /\ \A i \in DOMAIN data.annotations :
                      data.annotations[i].category_id = ExportedItems[i].obj

\* C16 as stated: the export holds one image record per frame file that has a
\* mask and one annotation per exported mask, each annotation referring to the
\* image record of its mask's frame.
C16_Original ==
    exported.written
        => LET data == exported.data
               File(it) == frame_paths[it.frame - start_frame + 1]
           IN  /\ \A i, j \in DOMAIN data.images :
                      i # j => data.images[i].file_name
                                   # data.images[j].file_name
               /\ {data.images[i].file_name : i \in DOMAIN data.images}
                    = {File(ExportedItems[i]) : i \in DOMAIN ExportedItems}
               /\ Len(data.annotations) = Len(ExportedItems)
               /\ \A i \in DOMAIN data.annotations :
                      \E j \in DOMAIN data.images :
                          /\ data.images[j].id = data.annotations[i].image_id
                          /\ data.images[j].file_name = File(ExportedItems[i])

\* C17 as stated: an export of a session that holds a mask whose frame has no
\* extracted file fails and writes nothing.
C17_Original ==
    (lastOp.op = "export"
     /\ \E i \in DOMAIN FlatMasks(masks) : ~InRange(FlatMasks(masks)[i]))
        => lastOp.result = "failed" /\ ~exported.written

C19_SequentialIds ==
    exported.written
        => /\ \A i \in DOMAIN exported.data.images :
                  exported.data.images[i].id = i
           /\ \A i \in DOMAIN exported.data.annotations :
                  exported.data.annotations[i].id = i

\* an export with two image records, two annotations and two categories
C19_Witness ==
    /\ exported.written
    /\ Len(exported.data.images) = 2
    /\ Len(exported.data.annotations) = 2
    /\ Len(exported.data.categories) = 2

\* the mask items a partial export up to the current frame is to cover
InPartialRange(it) ==
    it.frame >= start_frame /\ it.frame <= current_frame_index

\* C20 as stated: a partial export given on frame c completes and writes what
\* the full export writes for the masks of the frames start_frame..c.
C20_Original ==
    lastOp.op = "exportPartial"
        => /\ lastOp.result = "ok"
           /\ exported.written
           /\ exported.data
                = export_to_coco(EmptyDataset,
                                 SelectSeq(FlatMasks(masks), InPartialRange))

\* the last command called the predictor's propagate and the call failed
PropagationFailed == predCalls = << [fn |-> "propagate", ok |-> FALSE] >>

\* C21: a command whose propagate call fails leaves needs_propagation true and
\* points, masks, start_frame, frame_paths and is_initialized as they were;
\* the navigation or propagate that follows calls propagate again.
C21_PropagateFailure ==
    [][ /\ (PropagationFailed'
               => /\ needs_propagation'
                  /\ UNCHANGED <<points, masks, start_frame, frame_paths,
                                 is_initialized>>)
        /\ (PropagationFailed
            /\ (lastOp'.op = "propagate"
                \/ (lastOp'.op \in NavOps /\ lastOp'.result # "noop")))
               => \E i \in DOMAIN predCalls' : predCalls'[i].fn = "propagate"
      ]_vars

\* a navigation away from a frame with two points failed in propagate
C21_Witness ==
    /\ lastOp = Op("next", "failed")
    /\ PropagationFailed
    /\ needs_propagation
    /\ current_frame_index = 0
    /\ Len(points) = 2
    /\ HasMask(masks, 0, 1)

\* C22 as stated: an addPoint or undoPoint whose addPoints call failed leaves
\* needs_propagation true.
C22_Original ==
    (lastOp.op \in {"addPoint", "undoPoint"} /\ lastOp.result = "failed")
        => needs_propagation

\* C23: an addPoint whose frame extraction or predictor initialization fails
\* leaves is_initialized false and start_frame, frame_paths, points, masks and
\* needs_propagation as they were; the addPoint after it initializes again.
C23_InitFailureAborts ==
    [][ /\ (lastOp' = Op("addPoint", "initFailed")
               => /\ ~is_initialized
                  /\ ~is_initialized'
                  /\ ~needs_propagation'
                  /\ UNCHANGED <<start_frame, frame_paths, points, masks,
                                 needs_propagation>>)
        /\ (lastOp = Op("addPoint", "initFailed")
            /\ lastOp'.op = "addPoint" /\ lastOp'.result # "rejected")
               => \/ lastOp'.result = "initFailed"
                  \/ /\ predCalls' # <<>>
                     /\ predCalls'[1] = [fn |-> "initialize", ok |-> TRUE]
                     /\ is_initialized'
      ]_vars

\* the first addPoint, given on frame 1, failed while the predictor was
\* initialized
C23_Witness ==
    /\ lastOp = Op("addPoint", "initFailed")
    /\ predCalls = << [fn |-> "initialize", ok |-> FALSE] >>
    /\ current_frame_index = 1
    /\ ~is_initialized
    /\ points = <<>>
    /\ masks = <<>>

\* C24: the processing flag is false whenever a command may start, that is
\* after every command has returned, whether it succeeded, was rejected or
\* failed in the predictor; no command therefore starts while it is true.
C24_NeverProcessing == ~is_processing

\* an undoPoint whose recompute failed in the predictor has returned
C24_Witness ==
    /\ lastOp = Op("undoPoint", "failed")
    /\ ~is_processing
    /\ Len(points) = 1
    /\ predCalls # <<>>
    /\ ~predCalls[1].ok

\* C25 as stated: the capture of the session that a loadVideo replaces has
\* been released when the new session is installed; no capture other than
\* the one frames are read from is open.
C25_Original == ~cap.orphans

\* C26 as stated: a loadVideo that fails leaves the session and the frame
\* counter as they were and the capture that frames are read from in place.
C26_Original ==
    [][ lastOp' = Op("loadVideo", "failed")
           => UNCHANGED <<current_session, total_frames, points, masks,
                          objects, current_object_id, next_object_id,
                          start_frame, frame_paths, is_initialized,
                          needs_propagation, current_frame_index, cap>>
      ]_vars

\* the <<x, y, label>> triples of a list of points
Clicks(pts) == [i \in DOMAIN pts |-> <<pts[i].x, pts[i].y, pts[i].label>>]

\* C27 as stated: a successful undoPoint removes the last point and
\* recomputes the mask of that point's own (frame, object) pair from the
\* points left for the pair, deleting it if none is left; the masks of every
\* other pair stay as they were.
C27_Original ==
    [][ (lastOp'.op = "undoPoint" /\ lastOp'.result = "ok" /\ points # <<>>)
           => LET removed == points[Len(points)]
                  f == removed.frame_index
                  o == removed.object_id
                  rest == SelectSeq(points', LAMBDA p : p.frame_index = f
                                                      /\ p.object_id = o)
              IN  /\ points' = remove_last_point(points)
                  /\ rest = <<>> => ~HasMask(masks', f, o)
                  /\ rest # <<>>
                        => /\ HasMask(masks', f, o)
                           /\ MaskAt(masks', f, o).mask_data.kind = "click"
                           /\ MaskAt(masks', f, o).mask_data.pts = Clicks(rest)
                  /\ \A k \in MaskKeys(masks) \cup MaskKeys(masks') :
                         k # <<f, o>>
                            => /\ HasMask(masks, k[1], k[2])
                               /\ HasMask(masks', k[1], k[2])
                               /\ MaskAt(masks', k[1], k[2])
                                    = MaskAt(masks, k[1], k[2])
      ]_vars

\* C28: a successful addPoint appends one point, of the current frame and the
\* current object; calls addPoints once, with all points of that object on
\* that frame and no other; stores the mask it returns under (current frame,
\* current object), leaving every other mask as it was; and sets
\* needs_propagation.
C28_AddPoint ==
    [][ lastOp' = Op("addPoint", "ok")
           => LET f == current_frame_index
                  o == current_object_id
                  own == SelectSeq(points', LAMBDA p : p.frame_index = f
                                                     /\ p.object_id = o)
                  calls == SelectSeq(predCalls',
                                     LAMBDA c : c.fn = "addPoints")
              IN  /\ Len(points') = Len(points) + 1
                  /\ SubSeq(points', 1, Len(points)) = points
                  /\ points'[Len(points')].frame_index = f
                  /\ points'[Len(points')].object_id = o
                  /\ Len(calls) = 1
                  /\ calls[1].obj = o
                  /\ calls[1].frame = f - start_frame'
                  /\ Clicks(calls[1].pts) = Clicks(own)
                  /\ \A i \in DOMAIN calls[1].pts :
                         /\ calls[1].pts[i].object_id = o
                         /\ calls[1].pts[i].frame_index = f - start_frame'
                  /\ HasMask(masks', f, o)
                  /\ MaskAt(masks', f, o).mask_data.kind = "click"
                  /\ MaskAt(masks', f, o).mask_data.pts = Clicks(own)
                  /\ \A k \in MaskKeys(masks) \cup MaskKeys(masks') :
                         k # <<f, o>>
                            => /\ HasMask(masks, k[1], k[2])
                               /\ HasMask(masks', k[1], k[2])
                               /\ MaskAt(masks', k[1], k[2])
                                    = MaskAt(masks, k[1], k[2])
                  /\ needs_propagation'
                  /\ UNCHANGED <<current_frame_index, current_object_id>>
      ]_vars

\* object 2 got its second point while object 1 has a point on the same frame
C28_Witness ==
    /\ lastOp = Op("addPoint", "ok")
    /\ current_object_id = 2
    /\ Len(points) = 2
    /\ points[1].object_id = 1
    /\ points[2].object_id = 2
    /\ HasMask(masks, 0, 1)
    /\ HasMask(masks, 0, 2)
    /\ Len(MaskAt(masks, 0, 2).mask_data.pts) = 1

\* C29: the first addPoint of a session extracts the frames from the current
\* one to the last, initializes the predictor on them and sets start_frame,
\* frame_paths and is_initialized, all before the point is appended and sent
\* to the predictor; an addPoint of an initialized session extracts nothing
\* and initializes nothing.
C29_InitializeOnce ==
    [][ /\ (lastOp'.op = "addPoint" /\ ~is_initialized
            /\ lastOp'.result \in {"ok", "failed"})
               => /\ is_initialized'
                  /\ start_frame' = current_frame_index
                  /\ \E bad \in BadInputs :
                         frame_paths' = extract_frames_to_directory(
                                            current_frame_index, total_frames,
                                            bad, <<>>)
                  /\ labeler'.ready
                  /\ labeler'.num_frames = Len(frame_paths')
                  /\ Len(predCalls') = 2
                  /\ predCalls'[1] = [fn |-> "initialize", ok |-> TRUE]
                  /\ predCalls'[2].fn = "addPoints"
        /\ (lastOp'.op = "addPoint" /\ points' # points) => is_initialized'
        /\ (lastOp'.op = "addPoint" /\ is_initialized)
               => /\ \A i \in DOMAIN predCalls' :
                         predCalls'[i].fn # "initialize"
                  /\ labeler'.num_frames = labeler.num_frames
                  /\ UNCHANGED <<start_frame, frame_paths, is_initialized>>
      ]_vars

\* the second addPoint of a session anchored on frame 1 called the predictor
\* for the point only
C29_Witness ==
    /\ lastOp = Op("addPoint", "ok")
    /\ Len(points) = 2
    /\ Len(predCalls) = 1
    /\ predCalls[1].fn = "addPoints"
    /\ start_frame = 1
    /\ current_frame_index = 1
    /\ frame_paths = <<0>>

\* C30 as stated: addPoint and undoPoint never call propagate; a navigation
\* that changes the frame right after an addPoint or undoPoint that changed
\* the point list makes exactly one propagate call; a navigation given while
\* needs_propagation is false makes none.
C30_Original ==
    [][ /\ (lastOp'.op \in {"addPoint", "undoPoint"}
               => \A i \in DOMAIN predCalls' : predCalls'[i].fn # "propagate")
        /\ (lastOp.op \in {"addPoint", "undoPoint"}
            /\ lastOp.result \in {"ok", "failed"}
            /\ lastOp'.op \in NavOps
            /\ current_frame_index' # current_frame_index)
               => predCalls' = << [fn |-> "propagate", ok |-> TRUE] >>
        /\ (lastOp'.op \in NavOps /\ ~needs_propagation)
               => predCalls' = <<>>
      ]_vars

\* C31: addPoint in a session with no object selected changes nothing: no point
\* is appended, no mask is stored, the session is not initialized (no frames
\* extracted, no predictor call), and start_frame, is_initialized and
\* needs_propagation keep their values
C31_NoObjectNoOp ==
    [][(/\ current_session
        /\ current_object_id = None
        /\ \E bad \in BadInputs, initOutcome \in InitOutcomes,
              predOk \in BOOLEAN :
               AddPoint(Click(Len(points) + 1), bad, initOutcome, predOk))
       => UNCHANGED <<points, masks, start_frame, frame_paths, is_initialized,
                      needs_propagation, labeler, predCalls>>]_vars

\* a video is loaded, no object was ever added, and nothing is annotated
C31_Witness ==
    /\ current_session
    /\ ~is_processing
    /\ current_object_id = None
    /\ objects = <<>>
    /\ points = <<>>
    /\ masks = <<>>
    /\ ~is_initialized
    /\ lastOp.op = "loadVideo"
    /\ lastOp.result = "ok"

\* C32: addObject and selectObject, accepted or rejected, make no predictor
\* call and leave points, masks, needs_propagation, is_initialized,
\* start_frame, frame_paths and current_frame_index as they were; selectObject
\* also leaves objects and next_object_id, and selectObject with an id that is
\* no key of objects leaves current_object_id
C32_ObjectOpsPure ==
    [][/\ lastOp'.op \in {"addObject", "selectObject"}
          => /\ predCalls' \in {<<>>, predCalls}
             /\ UNCHANGED <<points, masks, needs_propagation, is_initialized,
                            start_frame, frame_paths, current_frame_index,
                            labeler>>
       /\ lastOp'.op = "selectObject"
          => /\ UNCHANGED <<objects, next_object_id>>
             /\ lastOp'.arg[1] \notin DOMAIN objects
                => UNCHANGED current_object_id]_vars

\* an id that names no object was selected in an annotated session that
\* waits for its propagation
C32_Witness ==
    /\ lastOp.op = "selectObject"
    /\ lastOp.result = "rejected"
    /\ lastOp.arg[1] = 3
    /\ DOMAIN objects = {1, 2}
    /\ current_object_id = 2
    /\ points # <<>>
    /\ masks # <<>>
    /\ is_initialized
    /\ needs_propagation

\* C33: a manual propagate acts only in an initialized session; there it
\* calls the predictor's propagation whatever needs_propagation was, and when
\* the call succeeds needs_propagation is false and every mask the predictor
\* returned lies under start_frame + its relative frame index
C33_ManualPropagate ==
    [][lastOp'.op = "propagate"
          => /\ is_initialized
             /\ Len(predCalls') = 1
             /\ predCalls'[1].fn = "propagate"
             /\ predCalls'[1].ok = (lastOp'.result = "ok")
             /\ lastOp'.result = "ok"
                => /\ ~needs_propagation'
                   /\ Returned(labeler) # {}
                   /\ \A m \in Returned(labeler) :
                          /\ HasMask(masks', start_frame + m.frame_index,
                                     m.object_id)
                          /\ MaskAt(masks', start_frame + m.frame_index,
                                    m.object_id).mask_data = m.mask_data]_vars

\* the session was anchored on the scenario's start frame, a navigation has
\* left that frame (which takes a propagation that cleared the flag), and a
\* manual propagate then succeeded
C33_Witness ==
    /\ lastOp.op = "propagate"
    /\ lastOp.result = "ok"
    /\ is_initialized
    /\ start_frame = ScenarioStart
    /\ current_frame_index = ScenarioStart + 1
    /\ ~needs_propagation
    /\ HasMask(masks, ScenarioFrames - 1, 1)
    /\ MaskAt(masks, ScenarioFrames - 1, 1).mask_data.kind = "prop"

\* C34: a loadVideo that succeeds leaves an empty point list, an empty mask
\* map, empty frame_paths, is_initialized and needs_propagation false and
\* current_frame_index 0, and, when a session existed, the objects,
\* current_object_id and next_object_id it had; the first addPoint of the new
\* session extracts the frames again and initializes the predictor on them,
\* so that no prompt of the previous video is left
C34_FreshSession ==
    [][/\ (lastOp'.op = "loadVideo" /\ lastOp'.result = "ok")
          => /\ current_session'
             /\ points' = <<>>
             /\ masks' = <<>>
             /\ frame_paths' = <<>>
             /\ ~is_initialized'
             /\ ~needs_propagation'
             /\ current_frame_index' = 0
             /\ current_session
                => UNCHANGED <<objects, current_object_id, next_object_id>>
       /\ (lastOp'.op = "addPoint" /\ lastOp'.result \in {"ok", "failed"}
           /\ ~is_initialized)
          => /\ predCalls'[1].fn = "initialize"
             /\ predCalls'[1].ok
             /\ is_initialized'
             /\ start_frame' = current_frame_index
             /\ frame_paths' # <<>>
             /\ Len(frame_paths') <= total_frames - current_frame_index
             /\ labeler'.ready
             /\ labeler'.num_frames = Len(frame_paths')
             /\ labeler'.prompts \subseteq {<<0, current_object_id>>}]_vars

\* a video was loaded over an annotated session: the objects are there, the
\* annotations are not, and the predictor still holds the old prompts
C34_Witness ==
    /\ lastOp.op = "loadVideo"
    /\ lastOp.result = "ok"
    /\ labeler.ready
    /\ labeler.prompts # {}
    /\ DOMAIN objects = {1}
    /\ current_object_id = 1
    /\ next_object_id = 2
    /\ points = <<>>
    /\ masks = <<>>
    /\ ~is_initialized

\* C35 as stated: the image and annotation records of an export follow the
\* increasing order of the absolute frames of their masks, in whatever order
\* the masks were written into the session.
C35_Original ==
    exported.written
        => LET data == exported.data
               Frame(a) == start_frame + a.mask_data.frame
           IN  /\ \A i, j \in DOMAIN data.annotations :
                      i < j => Frame(data.annotations[i])
                                   <= Frame(data.annotations[j])
               /\ \A i, j \in DOMAIN data.images :
                      i < j => data.images[i].file_name
                                   <= data.images[j].file_name

\* C36: while a video with at least one frame is loaded, current_frame_index
\* lies in 0..total_frames - 1, whatever next, previous and jump commands
\* (with targets below 0 and beyond the last frame) were given
C36_FrameInRange ==
    (current_session /\ total_frames >= 1)
        => /\ 0 <= current_frame_index
           /\ current_frame_index <= total_frames - 1

\* a jump has moved an annotated session to the last frame of a 2-frame video
C36_Witness ==
    /\ current_session
    /\ total_frames = 2
    /\ lastOp.op = "jump"
    /\ lastOp.result = "ok"
    /\ current_frame_index = total_frames - 1
    /\ points # <<>>

\* C37: a next on the last frame, a previous on frame 0 and a jump whose
\* clamped target is the current frame call no propagation and leave
\* current_frame_index, masks and needs_propagation as they were, also while
\* needs_propagation is true
C37_NavigateInPlace ==
    [][((current_frame_index = total_frames - 1
         /\ \E propOk \in BOOLEAN : NextFrame(propOk))
        \/ (current_frame_index = 0
            /\ \E propOk \in BOOLEAN : PreviousFrame(propOk))
        \/ (\E frame_index \in JumpInputs, propOk \in BOOLEAN :
                /\ Clamp(frame_index) = current_frame_index
                /\ JumpToFrame(frame_index, propOk)))
       => /\ predCalls' = <<>> \/ UNCHANGED predCalls
          /\ \A i \in DOMAIN predCalls' :
                 lastOp'.op \in NavOps => predCalls'[i].fn # "propagate"
          /\ UNCHANGED <<current_frame_index, masks, needs_propagation,
                         points, labeler>>]_vars

\* a jump to the current frame was given while the session waited for its
\* propagation
C37_Witness ==
    /\ lastOp.op = "jump"
    /\ lastOp.result = "noop"
    /\ current_frame_index = 1
    /\ needs_propagation
    /\ masks # <<>>
    /\ predCalls = <<>>

\* C38: a navigation whose propagate call fails leaves current_frame_index as
\* it was, and while needs_propagation is set no navigation changes the frame
\* unless its propagation succeeded
C38_FailedNavigationStays ==
    [][/\ (lastOp'.op \in NavOps /\ PropagationFailed')
          => UNCHANGED current_frame_index
       /\ (lastOp'.op \in NavOps /\ needs_propagation
           /\ ~PropagationSucceeded')
          => UNCHANGED current_frame_index]_vars

\* a jump from frame 1, where the session is anchored and annotated, to
\* frame 0 failed in propagate
C38_Witness ==
    /\ lastOp.op = "jump"
    /\ lastOp.result = "failed"
    /\ PropagationFailed
    /\ needs_propagation
    /\ start_frame = 1
    /\ current_frame_index = 1
    /\ HasMask(masks, 1, 1)

\* C39: in every state, if the point list or the mask map is not empty then
\* is_initialized is true, and the object_id of every point and of every
\* stored mask is a key of objects
C39_AnnotationsInitialized ==
    /\ (points # <<>> \/ masks # <<>>) => current_session /\ is_initialized
    /\ \A i \in DOMAIN points : points[i].object_id \in DOMAIN objects
    /\ \A i \in DOMAIN FlatMasks(masks) :
           /\ FlatMasks(masks)[i].obj \in DOMAIN objects
           /\ FlatMasks(masks)[i].mask.object_id \in DOMAIN objects

\* a frame holds points and masks of two objects
C39_Witness ==
    /\ is_initialized
    /\ DOMAIN objects = {1, 2}
    /\ Len(points) = 2
    /\ points[1].object_id = 2
    /\ points[2].object_id = 1
    /\ HasMask(masks, 0, 1)
    /\ HasMask(masks, 0, 2)

\* C40: in every export each annotation's image_id is the id of exactly one
\* image record, whose file_name is frame_paths[frame - start_frame] of the
\* annotation's mask, and its category_id is the id of exactly one category,
\* whose name is the name of the mask's object
C40_ReferentiallyClosed ==
    exported.written
        => LET data == exported.data
               items == SelectSeq(FlatMasks(masks),
                                  LAMBDA it :
                                      /\ it.frame >= start_frame
                                      /\ it.frame - start_frame
                                             < Len(frame_paths))
           IN  /\ Len(data.annotations) = Len(items)
               /\ \A i \in DOMAIN data.annotations :
                      LET a == data.annotations[i]
                          imgs == {j \in DOMAIN data.images :
                                      data.images[j].id = a.image_id}
                          cats == {k \in DOMAIN data.categories :
                                      data.categories[k].id = a.category_id}
                      IN  /\ Cardinality(imgs) = 1
                          /\ \A j \in imgs :
                                 data.images[j].file_name
                                   = frame_paths[items[i].frame - start_frame
                                                 + 1]
                          /\ Cardinality(cats) = 1
                          /\ items[i].obj \in DOMAIN objects
                          /\ \A k \in cats :
                                 data.categories[k].name
                                   = objects[items[i].obj].name

\* an export of a frame that holds the masks of two objects, written with
\* two categories
C40_Witness ==
    /\ exported.written
    /\ lastOp.op = "export"
    /\ Len(exported.data.annotations) = 2
    /\ Len(exported.data.categories) = 2
    /\ exported.data.annotations[1].category_id
         # exported.data.annotations[2].category_id

====
